---- MODULE Spec2Model ----
(***************************************************************************)
(* Model of src/main.py (IITD Buddy): the three retrieval-then-generation  *)
(* query flows of the Streamlit script,                                    *)
(*   "counselling"  GUIDANCE AND COUNSELLING  (lines 194-228)              *)
(*   "courses"      COURSES OF STUDY          (lines 475-516)              *)
(*   "links"        BSW LINKS                 (lines 599-688)              *)
(* together with the helpers query_llm, search_qdrant, format_links and    *)
(* query_groq_llm.                                                         *)
(*                                                                         *)
(* One run of the script with a submitted query is one invocation.  The    *)
(* invocation is cut at its external calls: pc is the position of the run. *)
(* The embedder, the vector index and the LLM are the environment: each    *)
(* call either returns or raises, chosen nondeterministically.             *)
(*                                                                         *)
(* A Python string is modelled as a sequence of symbols.  The literal      *)
(* fragments of the source's f-strings are single symbols ("Resource: ",   *)
(* "\n\n", ...); data strings are sequences of one-character symbols       *)
(* where their characters matter (queries, JSON texts) and of one symbol   *)
(* otherwise.  String concatenation is \o.  The emoji of the headings are  *)
(* left out of the symbols.                                                *)
(***************************************************************************)
EXTENDS Integers, Sequences, FiniteSets, TLC

VARIABLES
    flow,      \* the page whose form was submitted (rad, line 189)
    pc,        \* position of the script run
    query,     \* user_query
    events,    \* the pipeline stages attempted so far, in order, with their result
    hits,      \* the documents the index returned (ids into the store), or None
    context,   \* the formatted context string, or None
    request,   \* the messages= argument of the LLM call, <<>> before it
    response,  \* llm_response / response: what the synthesizer function returned
    ui,        \* what the run has emitted through st.*, in order
    raised,    \* the exceptions raised during the run, in order
    escaped,   \* the exception that left the run uncaught, or None
    returned   \* the (context, hits) pair search_qdrant returned, None before

vars == <<flow, pc, query, events, hits, context, request, response, ui, raised, escaped,
          returned>>

None == [t |-> "none"]

Flows == {"counselling", "courses", "links"}

\* The two flows that go through search_qdrant and query_llm.
SearchFlows == {"counselling", "courses"}

(***************************************************************************)
(* Bounds of the model.                                                    *)
(***************************************************************************)
\* The index stub returns at most this many documents (and never more than limit).
MaxHits == 2

(***************************************************************************)
(* Program constants.                                                      *)
(***************************************************************************)
DefaultLimit == 3
LinksLimit == 5
LlmTemperature == 1
LlmMaxTokens == 500

Limit(f) == IF f \in SearchFlows THEN DefaultLimit ELSE LinksLimit

(***************************************************************************)
(* Python values held in a payload.                                        *)
(*   [t |-> "str",  v |-> sequence of symbols]                             *)
(*   [t |-> "int",  v |-> integer]                                         *)
(*   [t |-> "list", v |-> sequence of values]                              *)
(*   [t |-> "dict", v |-> sequence of <<key, value>>]                      *)
(*   None                                                                  *)
(***************************************************************************)
VStr(s) == [t |-> "str", v |-> s]
VInt(n) == [t |-> "int", v |-> n]
VList(l) == [t |-> "list", v |-> l]
VDict(l) == [t |-> "dict", v |-> l]

\* The result of an expression that may raise.
Ok(v) == [ok |-> TRUE, v |-> v]
Raise(type, msg) == [ok |-> FALSE, type |-> type, msg |-> msg]

\* An exception as kept in raised / escaped: where it was raised, and str(e).
Exc(stage, r) == [t |-> "exc", stage |-> stage, type |-> r.type, msg |-> r.msg]

\* bool(s) of a Python string / list: non-empty.
Truthy(s) == Len(s) > 0

\* s.strip() == "": the query is empty or whitespace-only.
IsBlank(s) == \A i \in 1..Len(s) : s[i] = " "

RECURSIVE Concat(_)
Concat(ss) == IF ss = <<>> THEN <<>> ELSE Head(ss) \o Concat(Tail(ss))

\* sep.join(parts) for a list of strings.
RECURSIVE JoinStrs(_, _)
JoinStrs(sep, parts) ==
    IF parts = <<>> THEN <<>>
    ELSE IF Len(parts) = 1 THEN parts[1]
    ELSE parts[1] \o sep \o JoinStrs(sep, Tail(parts))

Digits == {"0", "1", "2", "3", "4", "5", "6", "7", "8", "9"}

\* str(n) for a small non-negative integer, one symbol per digit.
DigitOf(n) == CASE n = 0 -> "0" [] n = 1 -> "1" [] n = 2 -> "2" [] n = 3 -> "3"
                [] n = 4 -> "4" [] n = 5 -> "5" [] n = 6 -> "6" [] n = 7 -> "7"
                [] n = 8 -> "8" [] n = 9 -> "9"

RECURSIVE IntStr(_)
IntStr(n) == IF n < 10 THEN <<DigitOf(n)>> ELSE IntStr(n \div 10) \o <<DigitOf(n % 10)>>

\* repr(x) of a value inside a list or dict.
RECURSIVE PyRepr(_)
PyRepr(x) ==
    CASE x.t = "str" -> <<"'">> \o x.v \o <<"'">>
      [] x.t = "int" -> IntStr(x.v)
      [] x.t = "none" -> <<"None">>
      [] x.t = "list" ->
            <<"[">> \o JoinStrs(<<", ">>, [i \in 1..Len(x.v) |-> PyRepr(x.v[i])]) \o <<"]">>
      [] x.t = "dict" ->
            <<"{">> \o JoinStrs(<<", ">>,
                [i \in 1..Len(x.v) |-> PyRepr(x.v[i][1]) \o <<": ">> \o PyRepr(x.v[i][2])])
            \o <<"}">>

\* str(x): what an f-string's {x} produces.
PyStr(x) == IF x.t = "str" THEN x.v ELSE PyRepr(x)

\* sep.join(x): x must be iterable and every item a str, else TypeError.
\* Joining a str iterates over its characters; joining a dict over its keys.
JoinItems(sep, items) ==
    IF \A i \in 1..Len(items) : items[i].t = "str"
    THEN Ok(JoinStrs(sep, [i \in 1..Len(items) |-> items[i].v]))
    ELSE Raise("TypeError", <<"sequence item: expected str instance">>)

PyJoin(sep, x) ==
    CASE x.t = "list" -> JoinItems(sep, x.v)
      [] x.t = "str" -> Ok(JoinStrs(sep, [i \in 1..Len(x.v) |-> <<x.v[i]>>]))
      [] x.t = "dict" -> JoinItems(sep, [i \in 1..Len(x.v) |-> x.v[i][1]])
      [] OTHER -> Raise("TypeError", <<"can only join an iterable">>)

\* json.dumps(x).
RECURSIVE JsonDumps(_)
JsonDumps(x) ==
    CASE x.t = "str" -> <<"\"">> \o x.v \o <<"\"">>
      [] x.t = "int" -> IntStr(x.v)
      [] x.t = "none" -> <<"null">>
      [] x.t = "list" ->
            <<"[">> \o JoinStrs(<<", ">>, [i \in 1..Len(x.v) |-> JsonDumps(x.v[i])]) \o <<"]">>
      [] x.t = "dict" ->
            <<"{">> \o JoinStrs(<<", ">>,
                [i \in 1..Len(x.v) |-> JsonDumps(x.v[i][1]) \o <<": ">> \o JsonDumps(x.v[i][2])])
            \o <<"}">>

(***************************************************************************)
(* json.loads, on the whitespace-free JSON texts the store below holds:    *)
(* an integer, a quoted string, or a flat list of those.  Anything else    *)
(* raises JSONDecodeError.  Strings hold no comma, quote or backslash.     *)
(***************************************************************************)
RECURSIVE DigitsVal(_)
DigitsVal(s) ==
    IF s = <<>> THEN 0
    ELSE 10 * DigitsVal(SubSeq(s, 1, Len(s) - 1))
         + (CHOOSE n \in 0..9 : DigitOf(n) = s[Len(s)])

IsJsonInt(s) ==
    /\ Len(s) > 0
    /\ \A i \in 1..Len(s) : s[i] \in Digits
    /\ (Len(s) > 1 => s[1] # "0")

IsJsonStr(s) ==
    /\ Len(s) >= 2
    /\ s[1] = "\"" /\ s[Len(s)] = "\""
    /\ \A i \in 2..(Len(s) - 1) : s[i] \notin {"\"", "\\"}

\* The pieces of s between the occurrences of the symbol sep.
RECURSIVE SplitOn(_, _), SplitAt(_, _, _)
SplitOn(s, sep) ==
    IF \A i \in 1..Len(s) : s[i] # sep THEN <<s>>
    ELSE SplitAt(s, sep, CHOOSE i \in 1..Len(s) :
                             s[i] = sep /\ \A j \in 1..(i - 1) : s[j] # sep)

SplitAt(s, sep, k) == <<SubSeq(s, 1, k - 1)>> \o SplitOn(SubSeq(s, k + 1, Len(s)), sep)

JsonScalar(s) ==
    IF IsJsonInt(s) THEN Ok(VInt(DigitsVal(s)))
    ELSE IF IsJsonStr(s) THEN Ok(VStr(SubSeq(s, 2, Len(s) - 1)))
    ELSE Raise("JSONDecodeError", <<"Expecting value">>)

\* The item texts of a list text without its brackets.
JsonParts(inner) == IF inner = <<>> THEN <<>> ELSE SplitOn(inner, ",")

JsonItems(parts) == [i \in 1..Len(parts) |-> JsonScalar(parts[i])]

\* The list of the parsed items, when every item parsed.
JsonListOf(items) ==
    IF \A i \in 1..Len(items) : items[i].ok
    THEN Ok(VList([i \in 1..Len(items) |-> items[i].v]))
    ELSE Raise("JSONDecodeError", <<"Expecting value">>)

JsonLoads(s) ==
    IF Len(s) >= 2 /\ s[1] = "[" /\ s[Len(s)] = "]"
    THEN JsonListOf(JsonItems(JsonParts(SubSeq(s, 2, Len(s) - 1))))
    ELSE JsonScalar(s)

\* format_links(source_data), lines 612-626.  It never raises; what it returns
\* is whatever json.loads produced, list or not.
\* try: return r  except: return fallback
OrElse(r, fallback) == IF r.ok THEN r.v ELSE fallback

format_links(source_data) ==
    IF source_data.t = "list" THEN source_data
    ELSE IF source_data.t = "str"
         THEN OrElse(JsonLoads(source_data.v), VList(<<source_data>>))
         ELSE VList(<<>>)

(***************************************************************************)
(* The vector index's contents: per collection a few documents whose       *)
(* payloads have different shapes.  A payload is a record; its DOMAIN is   *)
(* the set of fields it has.  Every payload carries an id field the        *)
(* program never reads.                                                    *)
(***************************************************************************)
CounsellingDocs == 1..4
CourseDocs == 11..15
LinkDocs == 21..25

Docs(f) == CASE f = "counselling" -> CounsellingDocs
              [] f = "courses" -> CourseDocs
              [] f = "links" -> LinkDocs

Payload(d) ==
    CASE d = 1 -> [id |-> VInt(1), title |-> VStr(<<"Stress">>),
                   description |-> VStr(<<"Talk to a counsellor">>)]
      [] d = 2 -> [id |-> VInt(2), title |-> VStr(<<"Sleep">>)]
      [] d = 3 -> [id |-> VInt(3), description |-> VStr(<<"Untitled note">>)]
      [] d = 4 -> [id |-> VInt(4), title |-> VStr(<<"Exams">>),
                   description |-> VStr(<<"Exam anxiety">>)]
      [] d = 11 -> [id |-> VInt(11), course_code |-> VStr(<<"COL774">>),
                    title |-> VStr(<<"Machine Learning">>),
                    credits |-> VDict(<<<<VStr(<<"total">>), VInt(4)>>>>),
                    prerequisites |-> VList(<<VStr(<<"COL100">>), VStr(<<"MTL106">>)>>),
                    description |-> VStr(<<"Supervised learning">>)]
      [] d = 12 -> [id |-> VInt(12), course_code |-> VStr(<<"COL100">>),
                    title |-> VStr(<<"Intro to CS">>)]
      [] d = 13 -> [id |-> VInt(13), title |-> VStr(<<"Seminar">>),
                    description |-> VStr(<<"No code stored">>)]
      [] d = 14 -> [id |-> VInt(14), course_code |-> VStr(<<"MTL106">>),
                    description |-> VStr(<<"Probability">>)]
      [] d = 15 -> [id |-> VInt(15), course_code |-> VStr(<<"APL100">>),
                    title |-> VStr(<<"Mechanics">>),
                    prerequisites |-> VList(<<VInt(1)>>)]
      [] d = 21 -> [id |-> VInt(21), name |-> VStr(<<"Timetable">>),
                    Year |-> VStr(<<"First year">>),
                    SEM |-> VList(<<VStr(<<"1">>)>>),
                    source |-> VList(<<VStr(<<"u", "1">>), VStr(<<"u", "2">>)>>),
                    title |-> VStr(<<"Timetable">>),
                    description |-> VStr(<<"Semester timetable">>)]
      [] d = 22 -> [id |-> VInt(22), name |-> VStr(<<"Hostel">>)]
      [] d = 23 -> [id |-> VInt(23), name |-> VStr(<<"Notes">>),
                    source |-> VStr(<<"[", "\"", "u", "3", "\"", ",", "\"", "u", "4", "\"", "]">>)]
      [] d = 24 -> [id |-> VInt(24), name |-> VStr(<<"Papers">>),
                    Year |-> VStr(<<"2">>),
                    source |-> VStr(<<"u", "5">>)]
      [] d = 25 -> [id |-> VInt(25), Year |-> VInt(3),
                    source |-> VStr(<<"7">>)]

\* payload.get(k, default)
Get(p, k, default) == IF k \in DOMAIN p THEN p[k] ELSE default

\* payload[k]: KeyError when the field is missing; str(KeyError('k')) is "'k'".
Subscript(p, k) == IF k \in DOMAIN p THEN Ok(p[k]) ELSE Raise("KeyError", <<"'", k, "'">>)

NA == VStr(<<"N/A">>)

Min(a, b) == IF a < b THEN a ELSE b

\* What client.query_points(..., limit=limit).points can be: at most limit
\* distinct documents of the collection, in the index's rank order.
HitSeqs(f) ==
    {h \in UNION {[1..n -> Docs(f)] : n \in 0..Min(Limit(f), MaxHits)} :
        \A i, j \in 1..Len(h) : i # j => h[i] # h[j]}

(***************************************************************************)
(* Context formatting.                                                     *)
(***************************************************************************)
\* One block of search_qdrant's context, lines 160-161, for a payload p and
\* the result title of reading p['title'].
SearchBlockOf(p, title) ==
    IF title.ok
    THEN Ok(<<"Resource: ">> \o PyStr(title.v) \o <<"\n", "Description: ">>
            \o PyStr(Get(p, "description", NA)))
    ELSE title

SearchBlock(d) == SearchBlockOf(Payload(d), Subscript(Payload(d), "title"))

\* ', '.join(format_links(hit.payload.get('source', []))), lines 667 and 680.
LinksOf(p) == PyJoin(<<", ">>, format_links(Get(p, "source", VList(<<>>))))

\* One block of the BSW LINKS context, lines 664-667 (the Year line is there twice).
LinksBlockOf(p, links) ==
    IF links.ok
    THEN Ok(<<"Resource Title: ">> \o PyStr(Get(p, "name", NA)) \o <<"\n", "Year: ">>
            \o PyStr(Get(p, "Year", NA)) \o <<"Year: ">> \o PyStr(Get(p, "Year", NA))
            \o <<"\n", "Links: ">> \o links.v)
    ELSE links

LinksBlock(d) == LinksBlockOf(Payload(d), LinksOf(Payload(d)))

Block(f, d) == IF f \in SearchFlows THEN SearchBlock(d) ELSE LinksBlock(d)

\* The blocks of the list comprehension, one per hit, in the order of hs.
Blocks(f, hs) == [i \in 1..Len(hs) |-> Block(f, hs[i])]

\* "\n\n".join(blocks); the first block that raised ends the comprehension.
JoinBlocks(blocks) ==
    IF \E i \in 1..Len(blocks) : ~blocks[i].ok
    THEN blocks[CHOOSE i \in 1..Len(blocks) :
                    ~blocks[i].ok /\ \A j \in 1..(i - 1) : blocks[j].ok]
    ELSE Ok(JoinStrs(<<"\n\n">>, [i \in 1..Len(blocks) |-> blocks[i].v]))

\* A mutant of FormatContext: the blocks in reverse order.
FormatContextReversed(f, hs) ==
    JoinBlocks(Blocks(f, [i \in 1..Len(hs) |-> hs[Len(hs) + 1 - i]]))

\* "\n\n".join([block for hit in hits]), lines 159-163 and 663-669.
FormatContext(f, hs) == JoinBlocks(Blocks(f, hs))

(***************************************************************************)
(* The LLM request and what the synthesizer functions return.              *)
(***************************************************************************)
SystemRole(f) ==
    CASE f = "counselling" ->
            <<"You are a compassionate counselling advisor at IIT Delhi. Provide supportive, understanding responses while maintaining professionalism.">>
      [] f = "courses" ->
            <<"You are an academic advisor providing detailed information about courses.">>
      [] f = "links" ->
            <<"You are a helpful academic advisor. Provide clear, concise information about courses based on the search results.">>

\* The role prompt the caller passes to the synthesizer: the third argument of
\* query_llm (lines 219-220, 500); query_groq_llm(context, user_query) (line 670)
\* takes none, its system message is the literal of lines 634-635.
RoleArgument(f) == IF f \in SearchFlows THEN VStr(SystemRole(f)) ELSE None

\* The user message of query_llm (lines 131-139) and of query_groq_llm (636-641).
UserMessage(f, ctx, q) ==
    IF f \in SearchFlows
    THEN <<"Based on the following information and query, provide a helpful response:",
           "Context:">> \o ctx \o <<"User Query: ">> \o q
         \o <<"Please provide a structured response that addresses the query.">>
    ELSE <<"Based on the following course information and user query, provide a helpful response:",
           "Search Results:">> \o ctx \o <<"User Query: ">> \o q

Messages(f, ctx, q) ==
    <<[role |-> "system", content |-> SystemRole(f)],
      [role |-> "user", content |-> UserMessage(f, ctx, q)]>>

\* The except branch of query_llm (line 146) and of query_groq_llm (line 648).
ErrorText(f, msg) ==
    IF f \in SearchFlows
    THEN <<"I apologize, but I encountered an error: ">> \o msg
    ELSE <<"Error querying Groq LLM: ">> \o msg

\* The value query_llm / query_groq_llm returns for an outcome r of the API call.
SynthReturn(f, r) == IF r.ok THEN r.v ELSE ErrorText(f, r.msg)

(***************************************************************************)
(* What the run emits.  An item is one st.* call; doc is the document an   *)
(* expander or its body belongs to, 0 otherwise.                           *)
(***************************************************************************)
Item(kind, body, doc) == [kind |-> kind, body |-> body, doc |-> doc]
StError(body) == Item("error", body, 0)
StWarning(body) == Item("warning", body, 0)
Markdown(body) == Item("markdown", body, 0)

AnswerHeading(f) ==
    CASE f = "counselling" -> <<"### Guidance Response">>
      [] f = "courses" -> <<"### Detailed Course Analysis">>
      [] f = "links" -> <<"### LLM Response">>

DocsHeading(f) ==
    CASE f = "counselling" -> <<"### Related Resources">>
      [] f = "courses" -> <<"### Related Course Details">>
      [] f = "links" -> <<"### Related Resources">>

\* Lines 222-223, 502-503, 672-673: the heading and the answer slot.
AnswerSlot(resp) == Markdown(<<"<div class='structured-response'>">> \o resp \o <<"</div>">>)

AnswerItems(f, resp) == <<Markdown(AnswerHeading(f)), AnswerSlot(resp)>>

\* Lines 225-226, 505-506, 675-676: the heading of the documents and what the
\* loop r emitted.
DocItems(f, r) == <<Markdown(DocsHeading(f))>> \o r.items

\* The result of rendering: the items emitted, and Ok or the exception that
\* stopped the rendering.
Rendered(items, res) == [items |-> items, res |-> res]

\* The items of two renderings in a row.
AfterRendered(first, rest) == Rendered(first.items \o rest.items, rest.res)

\* Lines 227-228, for a payload p and the result title of reading p['title'].
RenderCounsellingOf(d, p, title) ==
    IF ~title.ok THEN Rendered(<<>>, title)
    ELSE Rendered(<<Item("expander", PyStr(title.v), d),
                    Item("markdown", <<"### Resource Information\n">>
                                     \o PyStr(Get(p, "description", NA)), d)>>,
                  Ok(None))

RenderCounsellingHit(d) ==
    RenderCounsellingOf(d, Payload(d), Subscript(Payload(d), "title"))

\* Lines 507-516, for a payload p, the result code of reading p['course_code']
\* and the result prereq of joining the prerequisites.
RenderCourseOf(d, p, code, prereq) ==
    IF ~code.ok THEN Rendered(<<>>, code)
    ELSE IF ~prereq.ok
         THEN Rendered(<<Item("expander",
                              PyStr(code.v) \o <<" - ">> \o PyStr(Get(p, "title", NA)), d)>>,
                       prereq)
         ELSE Rendered(<<Item("expander",
                              PyStr(code.v) \o <<" - ">> \o PyStr(Get(p, "title", NA)), d),
                         Item("markdown",
                              <<"### Course Information\n", "* Course Code: ">>
                              \o PyStr(code.v)
                              \o <<"\n", "* Credits: ">>
                              \o JsonDumps(Get(p, "credits", VDict(<<>>)))
                              \o <<"\n", "* Prerequisites: ">> \o prereq.v
                              \o <<"\n\n", "### Description\n">>
                              \o PyStr(Get(p, "description", NA)), d)>>,
                       Ok(None))

RenderCourseHit(d) ==
    RenderCourseOf(d, Payload(d), Subscript(Payload(d), "course_code"),
                   PyJoin(<<", ">>, Get(Payload(d), "prerequisites", VList(<<>>))))

\* Lines 677-683, for a payload p, the expander of line 677 and the results of
\* the three joins.
RenderLinksOf(d, p, expander, links, sem, year) ==
    IF ~links.ok THEN Rendered(<<expander>>, links)
    ELSE IF ~sem.ok THEN Rendered(<<expander>>, sem)
    ELSE IF ~year.ok THEN Rendered(<<expander>>, year)
    ELSE Rendered(<<expander,
                    Item("markdown",
                         <<"**Description:** ">> \o PyStr(Get(p, "description", NA))
                         \o <<"\n", "**Links:** ">> \o links.v
                         \o <<"\n", "**Sem:**">> \o sem.v
                         \o <<"\n", "**Year:**">> \o year.v, d)>>,
                  Ok(None))

RenderLinksHit(d) ==
    RenderLinksOf(d, Payload(d),
                  Item("expander", PyStr(Get(Payload(d), "title", NA)), d),
                  LinksOf(Payload(d)),
                  PyJoin(<<",">>, format_links(Get(Payload(d), "SEM", VList(<<>>)))),
                  PyJoin(<<",">>, format_links(Get(Payload(d), "Year", VList(<<>>)))))

RenderHit(f, d) ==
    CASE f = "counselling" -> RenderCounsellingHit(d)
      [] f = "courses" -> RenderCourseHit(d)
      [] f = "links" -> RenderLinksHit(d)

\* for hit in hits: ... (lines 226, 506, 676): stops at the first hit that raises.
RECURSIVE RenderHits(_, _), RenderNext(_, _, _)
RenderHits(f, hs) ==
    IF hs = <<>> THEN Rendered(<<>>, Ok(None))
    ELSE RenderNext(RenderHit(f, Head(hs)), f, Tail(hs))

\* The loop after its first iteration returned first.
RenderNext(first, f, rest) ==
    IF ~first.res.ok THEN first
    ELSE AfterRendered(first, RenderHits(f, rest))

(***************************************************************************)
(* The environment: what the user types and what the external calls do.    *)
(***************************************************************************)
Queries == {<<>>, <<" ">>, <<" ", " ">>, <<"f", "e", "e">>, <<" ", "m", "l">>}

Causes == {"timeout", "unauthorized"}

Answers == {<<"Here is what I found.">>}

\* embedding_model.encode(query).tolist(): a vector, or an exception.
EmbedOutcomes == {Ok(VStr(<<"vector">>))} \cup {Raise("RuntimeError", <<c>>) : c \in Causes}

\* client.query_points(...).points: a list of documents, or an exception.
RetrieveOutcomes(f) ==
    {Ok(VList(h)) : h \in HitSeqs(f)} \cup {Raise("ResponseError", <<c>>) : c \in Causes}

\* groq_client.chat.completions.create(...): a completion text, or an exception.
LlmOutcomes == {Ok(a) : a \in Answers} \cup {Raise("APIError", <<c>>) : c \in Causes}

(***************************************************************************)
(* The script's decisions.                                                 *)
(***************************************************************************)
Ev(stage, ok) == [stage |-> stage, ok |-> ok]

\* `if submitted and user_query:` (lines 209, 490) and `if user_query:` (652).
QueryGuard(q) == Truthy(q)

\* A mutant of EmbedRaisedPc: the failure is swallowed and the search goes on.
EmbedRaisedContinue(f) == "retrieve"

\* Where the run goes when encode() raises: search_qdrant catches it (lines
\* 166-168) and its caller's guard fails; in BSW LINKS the call is outside the
\* try (line 654) and the exception leaves the script.
EmbedRaisedPc(f) == IF f \in SearchFlows THEN "done" ELSE "crashed"

\* A mutant of RetrieveRaisedPc: the query is tried again.
RetrieveRaisedRetry(f) == "retrieve"

\* Where the run goes when query_points() raises (lines 166-168, 687-688).
RetrieveRaisedPc(f) == "done"

\* A mutant of HitsGuard: the emptiness test is lost.
HitsGuardAlways(h) == TRUE

\* `if hits:` (lines 158, 662).
HitsGuard(h) == Truthy(h)

\* The caller's guard `if context and hits:` (lines 215, 496); BSW LINKS calls
\* the LLM right after the join (line 670).
ContextGuard(f, ctx, h) == IF f \in SearchFlows THEN Truthy(ctx) /\ Truthy(h) ELSE TRUE

\* The prefix of the message st.error shows for an exception caught around the
\* search (line 167, line 688).
SearchErrorPrefix(f) ==
    IF f \in SearchFlows THEN <<"Search error: ">> ELSE <<"Error querying Qdrant: ">>

\* A mutant of NoResultsUi: the empty result is reported with st.error.
NoResultsAsError(f) == <<StError(<<"No relevant resources found.">>)>>

\* What is emitted when the index returned no documents: nothing after
\* search_qdrant's `return None, None` (line 165), st.warning in BSW LINKS
\* (line 686).
NoResultsUi(f) ==
    IF f \in SearchFlows THEN <<>> ELSE <<StWarning(<<"No relevant resources found.">>)>>

\* What search_qdrant returns: `return context, hits` (line 164) or
\* `return None, None` (lines 165, 168).  BSW LINKS has no such function.
Pair(c, h) == [context |-> c, hits |-> h]

SearchReturn(f, c, h) == IF f \in SearchFlows THEN Pair(c, h) ELSE None

(***************************************************************************)
(* The state machine.                                                      *)
(***************************************************************************)
Init ==
    /\ flow = "counselling"
    /\ pc = "idle"
    /\ query = <<>>
    /\ events = <<>>
    /\ hits = None
    /\ context = None
    /\ request = <<>>
    /\ response = None
    /\ ui = <<>>
    /\ raised = <<>>
    /\ escaped = None
    /\ returned = None

\* The user picks a page and submits a query; the script tests it.
Submit(f, q) ==
    /\ pc = "idle"
    /\ flow' = f
    /\ query' = q
    /\ events' = <<Ev("validate", QueryGuard(q))>>
    /\ pc' = IF QueryGuard(q) THEN "embed" ELSE "done"
    /\ UNCHANGED <<hits, context, request, response, ui, raised, escaped, returned>>

\* embedding_model.encode(query), line 151 and line 654.
Embed(r) ==
    /\ pc = "embed"
    /\ events' = Append(events, Ev("embed", r.ok))
    /\ IF r.ok
       THEN /\ pc' = "retrieve"
            /\ UNCHANGED <<ui, raised, escaped, returned>>
       ELSE /\ pc' = EmbedRaisedPc(flow)
            /\ raised' = Append(raised, Exc("embed", r))
            /\ returned' = SearchReturn(flow, None, None)
            /\ IF flow \in SearchFlows
               THEN /\ ui' = Append(ui, StError(SearchErrorPrefix(flow) \o r.msg))
                    /\ UNCHANGED escaped
               ELSE /\ escaped' = Exc("embed", r)
                    /\ UNCHANGED ui
    /\ UNCHANGED <<flow, query, hits, context, request, response>>

\* client.query_points(...).points and the test of the result, lines 152-158,
\* 165-168 and 656-662, 685-688.
Retrieve(r) ==
    /\ pc = "retrieve"
    /\ events' = Append(events, Ev("retrieve", r.ok))
    /\ IF r.ok
       THEN /\ hits' = r.v
            /\ UNCHANGED raised
            /\ IF HitsGuard(r.v.v)
               THEN /\ pc' = "format"
                    /\ UNCHANGED <<ui, returned>>
               ELSE /\ pc' = "done"
                    /\ ui' = ui \o NoResultsUi(flow)
                    /\ returned' = SearchReturn(flow, None, None)
       ELSE /\ pc' = RetrieveRaisedPc(flow)
            /\ raised' = Append(raised, Exc("retrieve", r))
            /\ ui' = Append(ui, StError(SearchErrorPrefix(flow) \o r.msg))
            /\ returned' = SearchReturn(flow, None, None)
            /\ UNCHANGED hits
    /\ UNCHANGED <<flow, query, context, request, response, escaped>>

\* The context join, lines 159-164 and 663-669, and the caller's guard.  An
\* exception of a payload read is caught by the enclosing try.
Format ==
    /\ pc = "format"
    /\ \E r \in {FormatContext(flow, hits.v)} :
          /\ events' = Append(events, Ev("format", r.ok))
          /\ IF r.ok
             THEN /\ context' = VStr(r.v)
                  /\ returned' = SearchReturn(flow, VStr(r.v), hits)
                  /\ pc' = IF ContextGuard(flow, r.v, hits.v) THEN "synth" ELSE "done"
                  /\ UNCHANGED <<ui, raised>>
             ELSE /\ pc' = "done"
                  /\ raised' = Append(raised, Exc("format", r))
                  /\ returned' = SearchReturn(flow, None, None)
                  /\ ui' = Append(ui, StError(SearchErrorPrefix(flow) \o r.msg))
                  /\ UNCHANGED context
    /\ UNCHANGED <<flow, query, hits, request, response, escaped>>

\* query_llm, lines 124-146, and query_groq_llm, lines 628-648.
Synthesize(r) ==
    /\ pc = "synth"
    /\ events' = Append(events, Ev("synthesize", r.ok))
    /\ request' = Messages(flow, context.v, query)
    /\ response' = VStr(SynthReturn(flow, r))
    /\ raised' = IF r.ok THEN raised ELSE Append(raised, Exc("synthesize", r))
    /\ pc' = "render"
    /\ UNCHANGED <<flow, query, hits, context, ui, escaped, returned>>

\* The rendering of the answer and of the documents, lines 222-228, 502-516
\* and 672-683.  In BSW LINKS the rendering is inside the try (line 687); in
\* the other two flows nothing catches an exception.
Render ==
    /\ pc = "render"
    /\ \E r \in {RenderHits(flow, hits.v)} :
          IF r.res.ok
          THEN /\ ui' = ui \o AnswerItems(flow, response.v) \o DocItems(flow, r)
               /\ pc' = "done"
               /\ UNCHANGED <<raised, escaped>>
          ELSE /\ raised' = Append(raised, Exc("render", r.res))
               /\ IF flow \in SearchFlows
                  THEN /\ ui' = ui \o AnswerItems(flow, response.v) \o DocItems(flow, r)
                       /\ escaped' = Exc("render", r.res)
                       /\ pc' = "crashed"
                  ELSE /\ ui' = Append(ui \o AnswerItems(flow, response.v) \o DocItems(flow, r),
                                       StError(SearchErrorPrefix(flow) \o r.res.msg))
                       /\ pc' = "done"
                       /\ UNCHANGED escaped
    /\ UNCHANGED <<flow, query, events, hits, context, request, response, returned>>

\* The run is over; the next interaction reruns the script from the top.
Rerun ==
    /\ pc \in {"done", "crashed"}
    /\ flow' = "counselling"
    /\ pc' = "idle"
    /\ query' = <<>>
    /\ events' = <<>>
    /\ hits' = None
    /\ context' = None
    /\ request' = <<>>
    /\ response' = None
    /\ ui' = <<>>
    /\ raised' = <<>>
    /\ escaped' = None
    /\ returned' = None

Next ==
    \/ \E f \in Flows, q \in Queries : Submit(f, q)
    \/ \E r \in EmbedOutcomes : Embed(r)
    \/ \E r \in RetrieveOutcomes(flow) : Retrieve(r)
    \/ Format
    \/ \E r \in LlmOutcomes : Synthesize(r)
    \/ Render
    \/ Rerun

Spec == Init /\ [][Next]_vars

(***************************************************************************)
(* Vocabulary of the properties.                                           *)
(***************************************************************************)
Terminal == {"done", "crashed"}

\* How often a stage was attempted in this invocation.
NumCalls(stage) == Cardinality({i \in 1..Len(events) : events[i].stage = stage})

StageFailed(stage) == \E i \in 1..Len(events) : events[i].stage = stage /\ ~events[i].ok

ExternalCalls == NumCalls("embed") + NumCalls("retrieve") + NumCalls("synthesize")

\* The position of a stage in validate -> embed -> retrieve -> format -> synthesize.
Rank(stage) ==
    CASE stage = "validate" -> 1
      [] stage = "embed" -> 2
      [] stage = "retrieve" -> 3
      [] stage = "format" -> 4
      [] stage = "synthesize" -> 5

HasError == \E i \in 1..Len(ui) : ui[i].kind = "error"

NoHits == hits # None /\ hits.v = <<>>

SomeHits == hits # None /\ hits.v # <<>>

\* The documents whose expander body was shown, in the order shown.
RECURSIVE DocsOf(_)
DocsOf(items) ==
    IF items = <<>> THEN <<>>
    ELSE (IF Head(items).kind = "markdown" /\ Head(items).doc # 0
          THEN <<Head(items).doc>> ELSE <<>>) \o DocsOf(Tail(items))

Displayed == DocsOf(ui)

\* s has t as a contiguous part.
Contains(s, t) == \E i \in 0..(Len(s) - Len(t)) : SubSeq(s, i + 1, i + Len(t)) = t

\* The outcome of a finished invocation, in the words of the pipeline contract:
\* an exception left the script (Crashed); the query test failed (NoQuery); a
\* stage raised and the exception was caught and reported (Failed); the index
\* returned no document (NoResults); the LLM returned an answer that was
\* rendered (Answered).
Outcome ==
    CASE pc \notin Terminal -> "Running"
      [] pc \in Terminal /\ escaped # None -> "Crashed"
      [] pc \in Terminal /\ escaped = None /\ ~events[1].ok -> "NoQuery"
      [] pc \in Terminal /\ escaped = None /\ events[1].ok /\ raised # <<>> -> "Failed"
      [] pc \in Terminal /\ escaped = None /\ events[1].ok /\ raised = <<>> /\ NoHits
            -> "NoResults"
      [] pc \in Terminal /\ escaped = None /\ events[1].ok /\ raised = <<>> /\ SomeHits
            /\ response # None -> "Answered"
      [] OTHER -> "Unknown"

(***************************************************************************)
(* C1.  An empty or whitespace-only query makes no external call and ends  *)
(* in NoQuery, in each of the three flows.  The script tests the query's   *)
(* truthiness only, so a query of blanks is embedded and searched.         *)
(***************************************************************************)
C1_BlankQueryNoCalls ==
    IsBlank(query) => /\ ExternalCalls = 0
                      /\ (pc \in Terminal => Outcome = "NoQuery")

(***************************************************************************)
(* C2.  For a non-empty query (here: one that is not blank either) and any *)
(* outcomes of the external calls, the invocation ends in exactly one of   *)
(* NoResults, Answered, Failed and no exception escapes into the host      *)
(* script.                                                                 *)
(***************************************************************************)
C2_NoUnhandledFault ==
    (pc \in Terminal /\ ~IsBlank(query)) =>
        /\ escaped = None
        /\ Outcome \in {"NoResults", "Answered", "Failed"}

(***************************************************************************)
(* C3.  The stages of one invocation run in the order validate -> embed    *)
(* -> retrieve -> format -> synthesize, each directly after the one before *)
(* it: the index is queried only after the embedder returned, the LLM is   *)
(* called only after a non-empty context was formatted, and a stage that   *)
(* failed is the last stage of the invocation.                             *)
(***************************************************************************)
C3_StageOrder ==
    /\ \A i \in 1..Len(events) : Rank(events[i].stage) = i
    /\ \A i \in 1..Len(events) : ~events[i].ok => i = Len(events)
    /\ NumCalls("retrieve") > 0 =>
            \E i \in 1..Len(events) : events[i] = Ev("embed", TRUE)
    /\ NumCalls("synthesize") > 0 =>
            /\ \E i \in 1..Len(events) : events[i] = Ev("format", TRUE)
            /\ context # None /\ Truthy(context.v)

C3_Witness ==
    /\ pc = "render"
    /\ Len(events) = 5
    /\ events[5].stage = "synthesize"
    /\ Truthy(context.v)

(***************************************************************************)
(* C4.  When the index returns zero documents for a non-empty query, the   *)
(* invocation ends there in NoResults and the LLM is not called.           *)
(***************************************************************************)
C4_NoResultsNoSynthesis ==
    NoHits => /\ pc = "done"
              /\ Outcome = "NoResults"
              /\ NumCalls("synthesize") = 0
              /\ request = <<>>
              /\ response = None

C4_Witness == NoHits /\ flow = "links" /\ Truthy(query) /\ pc = "done"

(***************************************************************************)
(* C5.  When retrieval returned documents and the LLM call raises, the     *)
(* returned message holds the cause text and all retrieved documents are   *)
(* displayed, in rank order, after the failure (checked for the queries    *)
(* that are not blank).                                                    *)
(***************************************************************************)
C5_SynthesisFailureKeepsDocuments ==
    (pc \in Terminal /\ ~IsBlank(query) /\ StageFailed("synthesize")) =>
        /\ \E i \in 1..Len(raised) :
                raised[i].stage = "synthesize" /\ Contains(response.v, raised[i].msg)
        /\ Displayed = hits.v

(***************************************************************************)
(* C6.  An empty retrieval result is not reported through st.error, and    *)
(* st.error is used only in an invocation in which something raised.       *)
(***************************************************************************)
C6_NoResultsIsNotAnError ==
    /\ NoHits => ~HasError
    /\ HasError => raised # <<>>

C6_Witness ==
    /\ NoHits
    /\ flow = "links"
    /\ \E i \in 1..Len(ui) : ui[i].kind = "warning"

(***************************************************************************)
(* C7.  No retry: within one invocation the embedder, the index and the    *)
(* LLM are each called at most once, also after a failure.                 *)
(***************************************************************************)
C7_NoRetry ==
    /\ NumCalls("embed") <= 1
    /\ NumCalls("retrieve") <= 1
    /\ NumCalls("synthesize") <= 1

C7_Witness == pc = "done" /\ StageFailed("retrieve") /\ NumCalls("retrieve") = 1

(***************************************************************************)
(* C8.  A synthesis failure is rendered distinctly from an answer: the     *)
(* error message is not put in the answer slot under the answer heading    *)
(* (checked for the queries that are not blank).                           *)
(***************************************************************************)
C8_FailureRenderedDistinctly ==
    (~IsBlank(query) /\ StageFailed("synthesize")) =>
        ~\E i \in 1..(Len(ui) - 1) :
            /\ ui[i] = Markdown(AnswerHeading(flow))
            /\ ui[i + 1] = AnswerSlot(response.v)

(***************************************************************************)
(* C9.  Every payload field read has a fallback: whatever fields the       *)
(* retrieved documents lack, no read of a missing field faults (KeyError)  *)
(* in context formatting or rendering, and a missing description shows as  *)
(* "N/A" in the context (checked for the queries that are not blank).      *)
(***************************************************************************)
C9_PayloadReadsHaveFallback ==
    ~IsBlank(query) =>
    /\ \A i \in 1..Len(raised) :
            raised[i].stage \in {"format", "render"} => raised[i].type # "KeyError"
    /\ (context # None /\ flow \in SearchFlows) =>
            \A i \in 1..Len(hits.v) :
                "description" \notin DOMAIN Payload(hits.v[i]) =>
                    Contains(context.v, <<"Description: ", "N/A">>)

CourseLine(p) == <<"Course: ">> \o PyStr(p.course_code) \o <<" - ">> \o PyStr(p.title)

PrerequisitesLine(p) == <<"Prerequisites: ">> \o PyJoin(<<", ">>, p.prerequisites).v

C11_CourseContextLines ==
    (flow = "courses" /\ ~IsBlank(query) /\ request # <<>>) =>
        \A i \in 1..Len(hits.v) :
            ({"course_code", "title", "prerequisites"} \subseteq DOMAIN Payload(hits.v[i])
             /\ PyJoin(<<", ">>, Payload(hits.v[i]).prerequisites).ok) =>
                /\ Contains(request[2].content, CourseLine(Payload(hits.v[i])))
                /\ Contains(request[2].content, PrerequisitesLine(Payload(hits.v[i])))

(***************************************************************************)
(* C12.  Every LLM request, in all three flows, is a two-message exchange: *)
(* the system message is the role prompt the caller supplied, the user     *)
(* message holds verbatim the formatted context and the query and asks     *)
(* explicitly for a response that addresses the query.                     *)
(***************************************************************************)
AsksToAddressQuery(content) ==
    Contains(content, <<"Please provide a structured response that addresses the query.">>)

C12_RequestShape ==
    request # <<>> =>
        /\ Len(request) = 2
        /\ request[1].role = "system"
        /\ request[2].role = "user"
        /\ RoleArgument(flow) # None
        /\ request[1].content = RoleArgument(flow).v
        /\ Contains(request[2].content, context.v)
        /\ Contains(request[2].content, query)
        /\ AsksToAddressQuery(request[2].content)

(***************************************************************************)
(* C13.  format_links returns a list of link strings for every input: a    *)
(* list is returned unchanged, a string that parses as JSON gives the      *)
(* parsed list, a string that is no JSON gives the one-item list of that   *)
(* string, anything else gives the empty list; so joining its result with  *)
(* ", " never faults.  Checked on every value the BSW LINKS flow hands to  *)
(* format_links: the source, SEM and Year fields of the retrieved          *)
(* documents, [] when the field is missing.                                *)
(***************************************************************************)
LinkFields == {"source", "SEM", "Year"}

IsListOfStrings(x) == x.t = "list" /\ \A i \in 1..Len(x.v) : x.v[i].t = "str"

FormatLinksAsClaimed(x) ==
    /\ IsListOfStrings(format_links(x))
    /\ x.t = "list" => format_links(x) = x
    /\ (x.t = "str" /\ JsonLoads(x.v).ok) => format_links(x) = JsonLoads(x.v).v
    /\ (x.t = "str" /\ ~JsonLoads(x.v).ok) => format_links(x) = VList(<<x>>)
    /\ x.t \notin {"list", "str"} => format_links(x) = VList(<<>>)
    /\ PyJoin(<<", ">>, format_links(x)).ok

C13_FormatLinksGivesList ==
    (flow = "links" /\ ~IsBlank(query) /\ NumCalls("format") > 0) =>
        \A i \in 1..Len(hits.v) : \A k \in LinkFields :
            FormatLinksAsClaimed(Get(Payload(hits.v[i]), k, VList(<<>>)))

(***************************************************************************)
(* C14.  search_qdrant returns either a pair (non-empty context string,    *)
(* non-empty hit list of at most `limit` documents, as the index gave      *)
(* them) or the pair (None, None), never a context without hits or hits    *)
(* without a context; so the callers' guard `context and hits` is true     *)
(* exactly when retrieval succeeded with at least one document.  Stated of *)
(* every run of a search flow in which search_qdrant has returned, for a   *)
(* query that is not blank.                                                *)
(***************************************************************************)
IsFullPair(p, f) ==
    /\ p.context.t = "str" /\ p.context.v # <<>>
    /\ p.hits.t = "list" /\ p.hits.v # <<>>
    /\ Len(p.hits.v) <= Limit(f)

GuardOf(p) ==
    /\ p.context # None /\ Truthy(p.context.v)
    /\ p.hits # None /\ Truthy(p.hits.v)

RetrievedSome == NumCalls("retrieve") = 1 /\ ~StageFailed("retrieve") /\ SomeHits

C14_SearchReturnsPairOrNothing ==
    (returned # None /\ ~IsBlank(query)) =>
        /\ IsFullPair(returned, flow) \/ returned = Pair(None, None)
        /\ IsFullPair(returned, flow) => returned.hits = hits
        /\ GuardOf(returned) <=> RetrievedSome

\* The first half of C14 alone: the shape of the returned pair.
C14_PairShape ==
    returned # None =>
        /\ IsFullPair(returned, flow) \/ returned = Pair(None, None)
        /\ IsFullPair(returned, flow) => returned.hits = hits

====
